---- MODULE Spec2Model ----
(***************************************************************************)
(* xMap: Base64 VLQ codec (components/base64.component.ts), the mapping    *)
(* engine (providers/mapping.provider.ts) and the source-map service       *)
(* (services/source.service.ts), modelled as state machines.               *)
(*                                                                         *)
(* A JavaScript string is a sequence of one-character strings; a number is *)
(* an integer, with the sentinels NaN, Null and Undefined standing for the *)
(* non-integer values the code can produce.  Bitwise operators work on the *)
(* signed 32-bit value of their operand, exactly as ToInt32 / ToUint32 do. *)
(***************************************************************************)
EXTENDS Integers, Sequences, FiniteSets, TLC

VARIABLES
    vlqIn,      \* the number array handed to encodeArrayVLQ
    vlqEnc,     \* encodeArrayVLQ(vlqIn)
    vlqDec,     \* decodeVLQ(vlqEnc)
    vlqPc,      \* "idle" | "encoded" | "decoded"
    mapping,    \* MappingProvider: this.mapping
    mpPc,       \* "none" before the constructor, then "ready" ("failed" when it
                \* threw), and "extended" once decode() was called on the provider
    op,         \* the last MappingProvider call
    pre,        \* this.mapping when the last call started
    arg,        \* the last decode input: [str, arr, isArray, namesOffset, sourcesOffset]
    threw,      \* whether the last call threw
    query,      \* the last lookup: [line, column, sourceIndex, bias]
    ret,        \* the segment the last lookup returned (NoSegment for null)
    encoded,    \* the string the last encode() returned
    fresh,      \* this.mapping of the provider built from that string
    freshPc,    \* "none" | "ready" | "failed" | "encoded", for that provider
    freshOut,   \* the string its encode() returned
    file,           \* SourceService: this.file; the empty sequence is null
    sourceRoot,     \* this.sourceRoot; the empty sequence is null
    names,          \* this.names
    sources,        \* this.sources
    sourcesContent, \* this.sourcesContent
    mappings,       \* this.mappings
    svcPc,      \* "none" before the constructor, then "ready", or "failed" when it threw
    svcError,   \* the message of the error the constructor threw, "none" without one
    envelope,   \* the source map the constructor was given
    caller,     \* the names, sources and sourcesContent arrays of that object
                \* as its owner sees them now
    concats,    \* how many times concat() was called on the service
    given,      \* every map handed to concat() so far, in order
    call,       \* the last concat() call: [made, maps, error, pre]
    serial,     \* the last getMapObject() or toString() call:
                \* [done, threw, mappings, text]
    position    \* the last getSourcePosition() or getPosition() call:
                \* [op, line, column, settings, threw, map, result]

vlqVars == <<vlqIn, vlqEnc, vlqDec, vlqPc>>

mpVars == <<mapping, mpPc, op, pre, arg, threw, query, ret, encoded, fresh, freshPc, freshOut>>

svcVars ==
    <<file, sourceRoot, names, sources, sourcesContent, mappings, svcPc, svcError, envelope,
      caller, concats, given, call, serial, position>>

vars == <<vlqVars, mpVars, svcVars>>

(***************************************************************************)
(* 32-bit integer arithmetic of the JavaScript bitwise operators.          *)
(***************************************************************************)

\* the least signed 32-bit integer, -2^31
MinInt32 == -2147483647 - 1

\* the greatest signed 32-bit integer, 2^31 - 1
MaxInt32 == 2147483647 + 0

\* 2^k for 0 <= k <= 30
Pow2(k) ==
    << 1, 2, 4, 8, 16, 32, 64, 128, 256, 512, 1024, 2048, 4096, 8192, 16384,
       32768, 65536, 131072, 262144, 524288, 1048576, 2097152, 4194304,
       8388608, 16777216, 33554432, 67108864, 134217728, 268435456,
       536870912, 1073741824 >>[k + 1]

\* ToInt32(-v) for a signed 32-bit v: -(-2^31) = 2^31 wraps to -2^31
NegInt32(v) == IF v = MinInt32 THEN MinInt32 ELSE -v

\* the low m bits of x (two's complement), 1 <= m <= 31, as a natural number
LowBits(x, m) ==
    IF m = 31 THEN (IF x >= 0 THEN x ELSE (x + MaxInt32) + 1)
    ELSE x % Pow2(m)

\* x << k: ToInt32(x * 2^(k mod 32)) for a signed 32-bit x
ShiftLeft(x, k) ==
    LET c == k % 32
        m == 32 - c
        low == LowBits(x, m)
    IN  IF c = 0 THEN x
        ELSE IF low >= Pow2(m - 1)
             THEN ((low - Pow2(m - 1)) * Pow2(c)) + MinInt32
             ELSE low * Pow2(c)

\* x >>> k: the unsigned 32-bit value of x shifted right, 1 <= k <= 31
UnsignedShiftRight(x, k) ==
    IF x >= 0 THEN x \div Pow2(k) ELSE (x \div Pow2(k)) + Pow2(32 - k)

\* x >> k: arithmetic shift right of a signed 32-bit x
ShiftRight(x, k) == x \div Pow2(k)

\* a & b for a signed 32-bit a and a natural b
RECURSIVE BitAnd(_, _)
BitAnd(a, b) ==
    IF b = 0 THEN 0
    ELSE ((a % 2) * (b % 2)) + 2 * BitAnd(a \div 2, b \div 2)

(***************************************************************************)
(* Base64 VLQ codec.                                                       *)
(***************************************************************************)

CONTINUATION_BIT_REMOVE == 31

CONTINUATION_BIT_POSITION == 32

base64Chars ==
    << "A","B","C","D","E","F","G","H","I","J","K","L","M","N","O","P",
       "Q","R","S","T","U","V","W","X","Y","Z","a","b","c","d","e","f",
       "g","h","i","j","k","l","m","n","o","p","q","r","s","t","u","v",
       "w","x","y","z","0","1","2","3","4","5","6","7","8","9","+","/" >>

Base64Alphabet == { base64Chars[i] : i \in 1..64 }

\* base64Map[char] is the digit value 0..63 of char; other characters have none
base64Map == [ c \in Base64Alphabet |-> (CHOOSE i \in 1..64 : base64Chars[i] = c) - 1 ]

\* the do/while loop of encodeVLQ over the carrier vlq
RECURSIVE encodeDigits(_)
encodeDigits(vlq) ==
    LET digit == BitAnd(vlq, CONTINUATION_BIT_REMOVE)
        rest  == UnsignedShiftRight(vlq, 5)
        char  == base64Chars[(digit + (IF rest > 0 THEN CONTINUATION_BIT_POSITION ELSE 0)) + 1]
    IN  IF rest > 0 THEN <<char>> \o encodeDigits(rest) ELSE <<char>>

encodeVLQ(value) ==
    LET isNegative == value < 0
        vlq == IF isNegative THEN ShiftLeft(NegInt32(value), 1) + 1
                             ELSE ShiftLeft(value, 1)
    IN  encodeDigits(vlq)

RECURSIVE encodeArrayVLQ(_)
encodeArrayVLQ(values) ==
    IF values = <<>> THEN <<>>
    ELSE encodeVLQ(Head(values)) \o encodeArrayVLQ(Tail(values))

\* the for loop of decodeVLQ from index i with the locals result, shift, value;
\* a character outside the alphabet throws
RECURSIVE decodeFrom(_, _, _, _, _)
decodeFrom(data, i, result, shift, value) ==
    IF i > Len(data) THEN [ok |-> TRUE, result |-> result, char |-> ""]
    ELSE IF data[i] \notin Base64Alphabet
         THEN [ok |-> FALSE, result |-> <<>>, char |-> data[i]]
    ELSE LET digit == base64Map[data[i]]
             continuation == BitAnd(digit, CONTINUATION_BIT_POSITION)
             value2 == value + ShiftLeft(BitAnd(digit, CONTINUATION_BIT_REMOVE), shift)
         IN  IF continuation # 0
             THEN decodeFrom(data, i + 1, result, shift + 5, value2)
             ELSE LET isNegative == BitAnd(value2, 1) = 1
                      shifted == ShiftRight(value2, 1)
                  IN  decodeFrom(data, i + 1,
                                 Append(result, IF isNegative THEN -shifted ELSE shifted),
                                 0, 0)

\* decodeVLQ as it would be if it looked for a character outside the
\* alphabet from the end of the string: the error names the last one
decodeVLQFromEnd(data) ==
    LET bad == { i \in 1..Len(data) : data[i] \notin Base64Alphabet }
    IN  IF bad = {} THEN decodeFrom(data, 1, <<>>, 0, 0)
        ELSE [ok |-> FALSE, result |-> <<>>,
              char |-> data[CHOOSE i \in bad : \A k \in bad : k <= i]]

decodeVLQ(data) == decodeFrom(data, 1, <<>>, 0, 0)

(***************************************************************************)
(* JavaScript values that are not integers.  A number field holds an       *)
(* integer or NaN; nameIndex may also hold Null; an array element read     *)
(* past the end of the array is Undefined.                                 *)
(***************************************************************************)

NaN == MinInt32 + 5

Null == MinInt32 + 6

Undefined == MinInt32 + 7

IsNumber(x) == x \notin {NaN, Null, Undefined}

\* a + b and a - b on numbers: NaN or undefined on either side gives NaN
Add(a, b) == IF IsNumber(a) /\ IsNumber(b) THEN a + b ELSE NaN

Sub(a, b) == IF IsNumber(a) /\ IsNumber(b) THEN a - b ELSE NaN

\* a < b and a > b: false as soon as one side is NaN
Lt(a, b) == IsNumber(a) /\ IsNumber(b) /\ a < b

Gt(a, b) == IsNumber(a) /\ IsNumber(b) /\ a > b

\* a !== b: NaN differs from everything, itself included
StrictNe(a, b) == a = NaN \/ b = NaN \/ a # b

\* Number.isFinite(x)
IsFinite(x) == IsNumber(x)

\* array[i] (i counted from 1) of a destructuring assignment
ElementAt(array, i) == IF i <= Len(array) THEN array[i] ELSE Undefined

\* the operand of encodeVLQ's value < 0 and value << 1: NaN compares false
\* and converts to the 32-bit integer 0
NumberOperand(v) == IF v = NaN THEN 0 ELSE v

RECURSIVE NumberOperands(_)
NumberOperands(values) ==
    IF values = <<>> THEN <<>>
    ELSE <<NumberOperand(Head(values))>> \o NumberOperands(Tail(values))

\* the sequences over S of length at most n
SeqsUpTo(S, n) == UNION { [1..k -> S] : k \in 0..n }

\* String.prototype.split(sep) from index i, cur being the piece in progress
RECURSIVE SplitFrom(_, _, _, _)
SplitFrom(str, sep, i, cur) ==
    IF i > Len(str) THEN <<cur>>
    ELSE IF str[i] = sep THEN <<cur>> \o SplitFrom(str, sep, i + 1, <<>>)
    ELSE SplitFrom(str, sep, i + 1, Append(cur, str[i]))

Split(str, sep) == SplitFrom(str, sep, 1, <<>>)

\* Array.prototype.join(sep) of an array of strings
RECURSIVE Join(_, _)
Join(parts, sep) ==
    IF parts = <<>> THEN <<>>
    ELSE IF Len(parts) = 1 THEN parts[1]
    ELSE parts[1] \o <<sep>> \o Join(Tail(parts), sep)

(***************************************************************************)
(* MappingProvider.  A frame of this.mapping is null or an array of        *)
(* segments; getSegment's null result is the segment NoSegment.            *)
(***************************************************************************)

NullFrame == [isNull |-> TRUE, segments |-> <<>>]

Frame(segments) == [isNull |-> FALSE, segments |-> segments]

NoSegment ==
    [line |-> Null, column |-> Null, nameIndex |-> Null, sourceIndex |-> Null,
     generatedLine |-> Null, generatedColumn |-> Null]

\* Bias.BOUND, Bias.LOWER_BOUND, Bias.UPPER_BOUND
Bias == {"BOUND", "LOWER_BOUND", "UPPER_BOUND"}

\* initPositionOffsets as it would be without its two parameters: the
\* accumulator always starts from index 0
initPositionOffsetsFromZero(namesOffset, sourceIndex) ==
    [line |-> 0, column |-> 0, nameIndex |-> 0, sourceIndex |-> 0,
     generatedLine |-> 0, generatedColumn |-> 0]

initPositionOffsets(namesOffset, sourceIndex) ==
    [line |-> 0, column |-> 0, nameIndex |-> namesOffset, sourceIndex |-> sourceIndex,
     generatedLine |-> 0, generatedColumn |-> 0]

validateMappingString(encodedSourceMap) ==
    /\ Len(encodedSourceMap) >= 1
    /\ \A i \in 1..Len(encodedSourceMap) :
          encodedSourceMap[i] \in Base64Alphabet \cup {",", ";"}

validateSegment(segment) ==
    /\ IsFinite(segment.line)
    /\ IsFinite(segment.column)
    /\ (segment.nameIndex = Null \/ IsFinite(segment.nameIndex))
    /\ IsFinite(segment.sourceIndex)
    /\ IsFinite(segment.generatedLine)
    /\ IsFinite(segment.generatedColumn)

\* the updated offset accumulator and the segment decodedSegment returns
decodedSegment(segmentOffset, decoded) ==
    LET generatedColumn == ElementAt(decoded, 1)
        sourceIndex == ElementAt(decoded, 2)
        sourceLine == ElementAt(decoded, 3)
        sourceColumn == ElementAt(decoded, 4)
        nameIndex == ElementAt(decoded, 5)
        offset == [segmentOffset EXCEPT
                     !.line = Add(@, sourceLine),
                     !.column = Add(@, sourceColumn),
                     !.nameIndex = Add(@, IF nameIndex = Undefined THEN 0 ELSE nameIndex),
                     !.sourceIndex = Add(@, sourceIndex),
                     !.generatedColumn = Add(@, generatedColumn)]
    IN  [offset |-> offset,
         segment |->
           [line |-> Add(offset.line, 1),
            column |-> Add(offset.column, 1),
            nameIndex |-> IF nameIndex # Undefined THEN offset.nameIndex ELSE Null,
            sourceIndex |-> offset.sourceIndex,
            generatedLine |-> Add(offset.generatedLine, 1),
            generatedColumn |-> Add(offset.generatedColumn, 1)]]

\* frame.split(',').map(segment => decodedSegment(positionOffset, decodeVLQ(segment)))
\* from piece i on; ok is false when decodeVLQ throws
RECURSIVE decodeSegments(_, _, _, _)
decodeSegments(pieces, i, positionOffset, segmentsArray) ==
    IF i > Len(pieces)
    THEN [ok |-> TRUE, offset |-> positionOffset, segments |-> segmentsArray]
    ELSE LET vlq == decodeVLQ(pieces[i])
         IN  IF ~vlq.ok
             THEN [ok |-> FALSE, offset |-> positionOffset, segments |-> segmentsArray]
             ELSE LET d == decodedSegment(positionOffset, vlq.result)
                  IN  decodeSegments(pieces, i + 1, d.offset, Append(segmentsArray, d.segment))

\* the frames.forEach of decodeMappingString from frame index (counted from 0) on
RECURSIVE decodeFrames(_, _, _, _, _)
decodeFrames(thisMapping, frames, index, linesOffset, positionOffset) ==
    IF index >= Len(frames) THEN [threw |-> FALSE, mapping |-> thisMapping]
    ELSE LET frame == frames[index + 1]
         IN  IF frame = <<>>
             THEN decodeFrames(Append(thisMapping, NullFrame), frames, index + 1,
                               linesOffset, positionOffset)
             ELSE LET offset == [positionOffset EXCEPT
                                   !.generatedColumn = 0,
                                   !.generatedLine = linesOffset + index]
                      decoded == decodeSegments(Split(frame, ","), 1, offset, <<>>)
                  IN  IF ~decoded.ok
                      THEN [threw |-> TRUE, mapping |-> thisMapping]
                      ELSE decodeFrames(Append(thisMapping, Frame(decoded.segments)), frames,
                                        index + 1, linesOffset, decoded.offset)

\* decodeMappingString as it would be if it numbered the lines of every
\* string from 0, whatever this.mapping already holds
decodeMappingStringFromFirstLine(thisMapping, encodedMap, namesOffset, sourceOffset) ==
    IF ~validateMappingString(encodedMap)
    THEN [threw |-> TRUE, mapping |-> thisMapping]
    ELSE decodeFrames(thisMapping, Split(encodedMap, ";"), 0, 0,
                      initPositionOffsets(namesOffset, sourceOffset))

\* this.mapping after decodeMappingString, and whether it threw
decodeMappingString(thisMapping, encodedMap, namesOffset, sourceOffset) ==
    IF ~validateMappingString(encodedMap)
    THEN [threw |-> TRUE, mapping |-> thisMapping]
    ELSE decodeFrames(thisMapping, Split(encodedMap, ";"), 0, Len(thisMapping),
                      initPositionOffsets(namesOffset, sourceOffset))

\* frame.map(segment => {validateSegment(segment); return {...}}) from segment i on
RECURSIVE mapSegments(_, _, _, _, _, _)
mapSegments(frame, i, namesOffset, sourceOffset, linesOffset, segments) ==
    IF i > Len(frame) THEN [ok |-> TRUE, segments |-> segments]
    ELSE LET segment == frame[i]
         IN  IF ~validateSegment(segment)
             THEN [ok |-> FALSE, segments |-> segments]
             ELSE mapSegments(frame, i + 1, namesOffset, sourceOffset, linesOffset,
                    Append(segments,
                      [segment EXCEPT
                         !.nameIndex = IF IsNumber(@) THEN @ + namesOffset ELSE Null,
                         !.sourceIndex = @ + sourceOffset,
                         !.generatedLine = @ + linesOffset]))

\* the encodedMap.forEach of decodeMappingArray from frame index (counted from 0) on
RECURSIVE decodeArrayFrames(_, _, _, _, _, _)
decodeArrayFrames(thisMapping, encodedMap, index, namesOffset, sourceOffset, linesOffset) ==
    IF index >= Len(encodedMap) THEN [threw |-> FALSE, mapping |-> thisMapping]
    ELSE LET frame == encodedMap[index + 1]
         IN  IF frame.isNull
             THEN decodeArrayFrames(Append(thisMapping, frame), encodedMap, index + 1,
                                    namesOffset, sourceOffset, linesOffset)
             ELSE LET mapped == mapSegments(frame.segments, 1, namesOffset, sourceOffset,
                                            linesOffset, <<>>)
                  IN  IF ~mapped.ok
                      THEN [threw |-> TRUE, mapping |-> thisMapping]
                      ELSE decodeArrayFrames(Append(thisMapping, Frame(mapped.segments)),
                                             encodedMap, index + 1, namesOffset,
                                             sourceOffset, linesOffset)

\* this.mapping after decodeMappingArray, and whether it threw
decodeMappingArray(thisMapping, encodedMap, namesOffset, sourceOffset) ==
    decodeArrayFrames(thisMapping, encodedMap, 0, namesOffset, sourceOffset, Len(thisMapping))

\* the updated offset accumulator and the string encodeSegment returns
encodeSegment(segmentOffset, segmentObject) ==
    LET adjustedLine == Sub(segmentObject.line, 1)
        adjustedColumn == Sub(segmentObject.column, 1)
        adjustedGeneratedColumn == Sub(segmentObject.generatedColumn, 1)
        sourceIndex == segmentObject.sourceIndex
        nameIndex == segmentObject.nameIndex
        hasName == nameIndex # Null /\ nameIndex # Undefined
        segment ==
            << Sub(adjustedGeneratedColumn, segmentOffset.generatedColumn),
               IF StrictNe(sourceIndex, segmentOffset.sourceIndex)
                  THEN Sub(sourceIndex, segmentOffset.sourceIndex) ELSE 0,
               Sub(adjustedLine, segmentOffset.line),
               Sub(adjustedColumn, segmentOffset.column) >>
            \o (IF hasName THEN <<Sub(nameIndex, segmentOffset.nameIndex)>> ELSE <<>>)
    IN  [offset |-> [segmentOffset EXCEPT
                       !.nameIndex = IF hasName THEN nameIndex ELSE @,
                       !.line = adjustedLine,
                       !.column = adjustedColumn,
                       !.generatedColumn = adjustedGeneratedColumn,
                       !.sourceIndex = sourceIndex],
         string |-> encodeArrayVLQ(NumberOperands(segment))]

\* frame.map(segment => encodeSegment(positionOffset, segment)) from segment i on
RECURSIVE encodeSegments(_, _, _, _)
encodeSegments(frame, i, positionOffset, segments) ==
    IF i > Len(frame) THEN [offset |-> positionOffset, segments |-> segments]
    ELSE LET e == encodeSegment(positionOffset, frame[i])
         IN  encodeSegments(frame, i + 1, e.offset, Append(segments, e.string))

\* map.map(frame => ...) of encodeMappings from frame i on
RECURSIVE encodeFrames(_, _, _)
encodeFrames(map, i, positionOffset) ==
    IF i > Len(map) THEN <<>>
    ELSE IF map[i].isNull
         THEN <<(<<>>)>> \o encodeFrames(map, i + 1, positionOffset)
         ELSE LET e == encodeSegments(map[i].segments, 1,
                                      [positionOffset EXCEPT !.generatedColumn = 0], <<>>)
              IN  <<Join(e.segments, ",")>> \o encodeFrames(map, i + 1, e.offset)

encodeMappings(map) == Join(encodeFrames(map, 1, initPositionOffsets(0, 0)), ";")

\* MappingProvider.encode()
encode(thisMapping) == encodeMappings(thisMapping)

\* the while loop of getSegment as it would be if it did not record the
\* closest segment on its way down: a miss returns null under every bias
RECURSIVE getSegmentLoopExactOnly(_, _, _, _, _, _)
getSegmentLoopExactOnly(segments, generatedColumn, bias, low, high, closestSegment) ==
    IF low > high THEN closestSegment
    ELSE LET mid == (low + high) \div 2
             segment == segments[mid + 1]
         IN  IF Lt(segment.generatedColumn, generatedColumn)
             THEN getSegmentLoopExactOnly(segments, generatedColumn, bias, mid + 1, high,
                                          closestSegment)
             ELSE IF Gt(segment.generatedColumn, generatedColumn)
             THEN getSegmentLoopExactOnly(segments, generatedColumn, bias, low, mid - 1,
                                          closestSegment)
             ELSE segment

\* the while loop of getSegment as it would be if it kept the first candidate
\* it came across instead of the latest
RECURSIVE getSegmentLoopFirstCandidate(_, _, _, _, _, _)
getSegmentLoopFirstCandidate(segments, generatedColumn, bias, low, high, closestSegment) ==
    IF low > high THEN closestSegment
    ELSE LET mid == (low + high) \div 2
             segment == segments[mid + 1]
             first == closestSegment.generatedColumn = Null
         IN  IF Lt(segment.generatedColumn, generatedColumn)
             THEN getSegmentLoopFirstCandidate(segments, generatedColumn, bias, mid + 1, high,
                    IF bias = "LOWER_BOUND" /\ first THEN segment ELSE closestSegment)
             ELSE IF Gt(segment.generatedColumn, generatedColumn)
             THEN getSegmentLoopFirstCandidate(segments, generatedColumn, bias, low, mid - 1,
                    IF bias = "UPPER_BOUND" /\ first THEN segment ELSE closestSegment)
             ELSE segment

\* the while loop of getSegment
RECURSIVE getSegmentLoop(_, _, _, _, _, _)
getSegmentLoop(segments, generatedColumn, bias, low, high, closestSegment) ==
    IF low > high THEN closestSegment
    ELSE LET mid == (low + high) \div 2
             segment == segments[mid + 1]
         IN  IF Lt(segment.generatedColumn, generatedColumn)
             THEN getSegmentLoop(segments, generatedColumn, bias, mid + 1, high,
                    IF bias = "LOWER_BOUND" THEN segment ELSE closestSegment)
             ELSE IF Gt(segment.generatedColumn, generatedColumn)
             THEN getSegmentLoop(segments, generatedColumn, bias, low, mid - 1,
                    IF bias = "UPPER_BOUND" THEN segment ELSE closestSegment)
             ELSE segment

getSegment(thisMapping, generatedLine, generatedColumn, bias) ==
    IF generatedLine - 1 \notin 0..(Len(thisMapping) - 1) THEN NoSegment
    ELSE LET frame == thisMapping[generatedLine]
         IN  IF frame.isNull \/ Len(frame.segments) = 0 THEN NoSegment
             ELSE getSegmentLoop(frame.segments, generatedColumn, bias,
                                 0, Len(frame.segments) - 1, NoSegment)

\* the while loop of getOriginalSegment over one frame; found is true when
\* it returned midSegment
RECURSIVE getOriginalSegmentLoop(_, _, _, _, _, _, _, _)
getOriginalSegmentLoop(segments, line, column, sourceIndex, bias, low, high, closestSegment) ==
    IF low > high THEN [found |-> FALSE, segment |-> closestSegment]
    ELSE LET mid == (low + high) \div 2
             midSegment == segments[mid + 1]
         IN  IF Lt(midSegment.sourceIndex, sourceIndex) \/ Lt(midSegment.line, line)
             THEN getOriginalSegmentLoop(segments, line, column, sourceIndex, bias,
                                         mid + 1, high, closestSegment)
             ELSE IF Gt(midSegment.sourceIndex, sourceIndex) \/ Gt(midSegment.line, line)
             THEN getOriginalSegmentLoop(segments, line, column, sourceIndex, bias,
                                         low, mid - 1, closestSegment)
             ELSE IF Lt(midSegment.column, column)
             THEN getOriginalSegmentLoop(segments, line, column, sourceIndex, bias,
                    mid + 1, high,
                    IF bias = "LOWER_BOUND" THEN midSegment ELSE closestSegment)
             ELSE IF Gt(midSegment.column, column)
             THEN getOriginalSegmentLoop(segments, line, column, sourceIndex, bias,
                    low, mid - 1,
                    IF bias = "UPPER_BOUND" THEN midSegment ELSE closestSegment)
             ELSE [found |-> TRUE, segment |-> midSegment]

\* the for loop of getOriginalSegment over this.mapping from frame i on
RECURSIVE getOriginalSegmentFrames(_, _, _, _, _, _, _)
getOriginalSegmentFrames(thisMapping, i, line, column, sourceIndex, bias, closestSegment) ==
    IF i > Len(thisMapping) THEN closestSegment
    ELSE IF thisMapping[i].isNull
    THEN getOriginalSegmentFrames(thisMapping, i + 1, line, column, sourceIndex, bias,
                                  closestSegment)
    ELSE LET r == getOriginalSegmentLoop(thisMapping[i].segments, line, column, sourceIndex,
                                         bias, 0, Len(thisMapping[i].segments) - 1,
                                         closestSegment)
         IN  IF r.found THEN r.segment
             ELSE getOriginalSegmentFrames(thisMapping, i + 1, line, column, sourceIndex,
                                           bias, r.segment)

getOriginalSegment(thisMapping, line, column, sourceIndex, bias) ==
    getOriginalSegmentFrames(thisMapping, 1, line, column, sourceIndex, bias, NoSegment)

(***************************************************************************)
(* MappingProvider as a state machine: the constructor, decode(), encode(),*)
(* getSegment() and getOriginalSegment(), and a second provider built from *)
(* encode()'s result.                                                      *)
(***************************************************************************)

\* most lines of a decode input
MaxFrames == 2

\* most segments of a mappings string
MaxSegments == 2

\* greatest generatedColumn of the segments of a structured frame
MaxColumn == 3

\* the VLQ delta vectors a mappings string is made of: a plain segment and
\* one with a name that moves on by two columns
SegmentDeltas == { <<0, 0, 0, 0>>, <<2, 0, 1, 1, 1>> }

Count(seq, x) == Cardinality({ i \in 1..Len(seq) : seq[i] = x })

\* the piece of a string that ends a line, written ";"
LineEnd == <<>>

\* a string's pieces (delta vectors and line ends) in order
TokenLists ==
    { t \in SeqsUpTo(SegmentDeltas \cup {LineEnd}, MaxSegments + MaxFrames - 1) :
        /\ Count(t, LineEnd) <= MaxFrames - 1
        /\ Len(t) - Count(t, LineEnd) <= MaxSegments }

\* the string of a token list: segments of one line are joined by ","
RECURSIVE StringOf(_, _)
StringOf(tokens, i) ==
    IF i > Len(tokens) THEN <<>>
    ELSE IF tokens[i] = LineEnd THEN <<";">> \o StringOf(tokens, i + 1)
    ELSE encodeArrayVLQ(tokens[i])
         \o (IF i < Len(tokens) /\ tokens[i + 1] # LineEnd THEN <<",">> ELSE <<>>)
         \o StringOf(tokens, i + 1)

\* a string outside the character set, one whose segment has a single field,
\* one whose single-field segment is followed by a plain one, one whose
\* segment has two fields, one whose second segment stays on the column of
\* the first, one whose second segment steps back a column, and one whose
\* segment steps back from column 0
OddStrings ==
    { <<"A", "!", "A", "A">>,
      StringOf(<< <<1>> >>, 1),
      StringOf(<< <<1>>, <<0, 0, 0, 0>> >>, 1),
      StringOf(<< <<0, 0>> >>, 1),
      StringOf(<< <<0, 0, 0, 0>>, <<0, 0, 1, 0>> >>, 1),
      StringOf(<< <<1, 0, 0, 0>>, <<-1, 0, 0, 0>> >>, 1),
      StringOf(<< <<-1, 0, 0, 0>> >>, 1) }

\* the mappings strings tried
MappingStrings == { StringOf(t, 1) : t \in TokenLists } \cup OddStrings

RECURSIVE SortedSeq(_)
SortedSeq(S) ==
    IF S = {} THEN <<>>
    ELSE LET m == CHOOSE x \in S : \A y \in S : x <= y
         IN  <<m>> \o SortedSeq(S \ {m})

\* a structured frame with one segment per column of cols, in ascending order
ColumnFrame(cols, generatedLine) ==
    LET c == SortedSeq(cols)
    IN  Frame([ i \in 1..Len(c) |->
                  [line |-> c[i] + 1, column |-> c[i], sourceIndex |-> c[i] % 2,
                   nameIndex |-> IF c[i] % 2 = 0 THEN Null ELSE c[i] \div 2,
                   generatedLine |-> generatedLine, generatedColumn |-> c[i]] ])

\* a structured frame that is not sorted, one with a repeated column, and one
\* whose second segment validateSegment rejects
OddFrames ==
    LET seg(c, l) == [line |-> l, column |-> 1, sourceIndex |-> 0, nameIndex |-> Null,
                      generatedLine |-> 1, generatedColumn |-> c]
    IN  { Frame(<<seg(3, 1), seg(1, 2)>>),
          Frame(<<seg(2, 1), seg(2, 2)>>),
          Frame(<<seg(1, 1), seg(2, NaN)>>) }

RECURSIVE NullFrames(_)
NullFrames(n) == IF n = 0 THEN <<>> ELSE <<NullFrame>> \o NullFrames(n - 1)

\* the structured maps tried: k null frames, then nothing or one more frame
MappingArrays ==
    { NullFrames(k) : k \in 0..MaxFrames }
    \cup { NullFrames(k) \o <<ColumnFrame(cols, k + 1)>> :
             k \in 0..(MaxFrames - 1), cols \in SUBSET (1..MaxColumn) }
    \cup { NullFrames(k) \o <<f>> : k \in 0..(MaxFrames - 1), f \in OddFrames }

\* a decode input: a string or a structured map
DecodeInputs ==
    { [isArray |-> FALSE, str |-> b, arr |-> <<>>] : b \in MappingStrings }
    \cup { [isArray |-> TRUE, str |-> <<>>, arr |-> a] : a \in MappingArrays }

\* the (namesOffset, sourcesOffset) pairs tried
Offsets == { <<0, 0>>, <<1, 2>> }

NoArg == [isArray |-> FALSE, str |-> <<>>, arr |-> <<>>, namesOffset |-> 0, sourcesOffset |-> 0]

NoQuery == [line |-> 0, column |-> 0, sourceIndex |-> 0, bias |-> "BOUND"]

\* the body shared by the constructor and decode()
decode(map, input, namesOffset, sourcesOffset) ==
    IF input.isArray
    THEN decodeMappingArray(map, input.arr, namesOffset, sourcesOffset)
    ELSE decodeMappingString(map, input.str, namesOffset, sourcesOffset)

MpInit ==
    /\ mapping = <<>>
    /\ mpPc = "none"
    /\ op = "none"
    /\ pre = <<>>
    /\ arg = NoArg
    /\ threw = FALSE
    /\ query = NoQuery
    /\ ret = NoSegment
    /\ encoded = <<>>
    /\ fresh = <<>>
    /\ freshPc = "none"
    /\ freshOut = <<>>

\* what a call leaves of the previous calls' results
ResetFresh == fresh' = <<>> /\ freshPc' = "none" /\ freshOut' = <<>>

ResetLookup == query' = NoQuery /\ ret' = NoSegment

\* new MappingProvider(mapping, namesOffset, sourcesOffset)
ConstructWith(input, namesOffset, sourcesOffset) ==
    LET r == decode(<<>>, input, namesOffset, sourcesOffset)
    IN  /\ mpPc = "none"
        /\ mapping' = r.mapping
        /\ threw' = r.threw
        /\ mpPc' = IF r.threw THEN "failed" ELSE "ready"
        /\ op' = "constructor"
        /\ pre' = <<>>
        /\ arg' = [isArray |-> input.isArray, str |-> input.str, arr |-> input.arr,
                   namesOffset |-> namesOffset, sourcesOffset |-> sourcesOffset]
        /\ encoded' = <<>>
        /\ ResetFresh /\ ResetLookup
        /\ UNCHANGED <<vlqVars, svcVars>>

\* new MappingProvider(mapping)
Construct == \E input \in DecodeInputs : ConstructWith(input, 0, 0)

\* provider.decode(mapping, namesOffset, sourcesOffset), called once on a
\* provider the constructor has built
Decode ==
    /\ mpPc = "ready"
    /\ mpPc' = "extended"
    /\ \E input \in DecodeInputs, o \in Offsets :
       LET r == decode(mapping, input, o[1], o[2])
       IN  /\ mapping' = r.mapping
           /\ threw' = r.threw
           /\ op' = "decode"
           /\ pre' = mapping
           /\ arg' = [isArray |-> input.isArray, str |-> input.str, arr |-> input.arr,
                      namesOffset |-> o[1], sourcesOffset |-> o[2]]
           /\ encoded' = <<>>
           /\ ResetFresh /\ ResetLookup
           /\ UNCHANGED <<vlqVars, svcVars>>

\* encode() as it would be if it took the frames off this.mapping while it
\* walked them
EncodeDraining ==
    /\ mpPc \in {"ready", "extended"}
    /\ op # "encode"
    /\ encoded' = encode(mapping)
    /\ mapping' = <<>>
    /\ op' = "encode"
    /\ pre' = mapping
    /\ threw' = FALSE
    /\ ResetFresh /\ ResetLookup
    /\ UNCHANGED <<mpPc, arg, vlqVars, svcVars>>

\* provider.encode()
Encode ==
    /\ mpPc \in {"ready", "extended"}
    /\ op # "encode"
    /\ encoded' = encode(mapping)
    /\ op' = "encode"
    /\ pre' = mapping
    /\ threw' = FALSE
    /\ ResetFresh /\ ResetLookup
    /\ UNCHANGED <<mapping, mpPc, arg, vlqVars, svcVars>>

\* new MappingProvider(encoded), encoded being what provider.encode() returned
FreshConstruct ==
    LET r == decodeMappingString(<<>>, encoded, 0, 0)
    IN  /\ op = "encode"
        /\ freshPc = "none"
        /\ fresh' = r.mapping
        /\ freshPc' = IF r.threw THEN "failed" ELSE "ready"
        /\ freshOut' = <<>>
        /\ UNCHANGED <<mapping, mpPc, op, pre, arg, threw, query, ret, encoded, vlqVars, svcVars>>

\* encode() of the provider built from encoded
FreshEncode ==
    /\ freshPc = "ready"
    /\ freshOut' = encode(fresh)
    /\ freshPc' = "encoded"
    /\ UNCHANGED <<mapping, mpPc, op, pre, arg, threw, query, ret, encoded, fresh, vlqVars, svcVars>>

\* provider.getSegment(generatedLine, generatedColumn, bias)
GetSegment ==
    \E line \in 0..(MaxFrames + 1), column \in 0..(MaxColumn + 1), bias \in Bias :
       /\ mpPc \in {"ready", "extended"}
       /\ query' = [line |-> line, column |-> column, sourceIndex |-> 0, bias |-> bias]
       /\ ret' = getSegment(mapping, line, column, bias)
       /\ op' = "getSegment"
       /\ pre' = mapping
       /\ threw' = FALSE
       /\ encoded' = <<>>
       /\ ResetFresh
       /\ UNCHANGED <<mapping, mpPc, arg, vlqVars, svcVars>>

\* the (sourceIndex, line, column) positions the segments of the maps below
\* refer to
OriginalPositions == { <<0, 1, 1>>, <<0, 1, 3>>, <<1, 1, 1>> }

\* a structured frame whose i-th segment is at generated column i and refers
\* to the i-th position of positions
OriginalFrame(positions, generatedLine) ==
    Frame([ i \in 1..Len(positions) |->
              [line |-> positions[i][2], column |-> positions[i][3],
               sourceIndex |-> positions[i][1], nameIndex |-> Null,
               generatedLine |-> generatedLine, generatedColumn |-> i] ])

\* structured maps of one or two frames of one or two segments each, in
\* ascending order of generated column and in any order of original position
OriginalMaps ==
    LET runs == SeqsUpTo(OriginalPositions, 2) \ {<<>>}
    IN  { <<OriginalFrame(a, 1)>> : a \in runs }
        \cup { <<OriginalFrame(a, 1), OriginalFrame(b, 2)>> : a \in runs, b \in runs }

\* new MappingProvider(mapping) with one of those maps
ConstructOriginal ==
    \E a \in OriginalMaps : ConstructWith([isArray |-> TRUE, str |-> <<>>, arr |-> a], 0, 0)

\* provider.getOriginalSegment(line, column, sourceIndex, bias)
GetOriginalSegment ==
    \E line \in 1..2, column \in 0..(MaxColumn + 1), sourceIndex \in 0..1, bias \in Bias :
       /\ mpPc \in {"ready", "extended"}
       /\ query' = [line |-> line, column |-> column, sourceIndex |-> sourceIndex,
                    bias |-> bias]
       /\ ret' = getOriginalSegment(mapping, line, column, sourceIndex, bias)
       /\ op' = "getOriginalSegment"
       /\ pre' = mapping
       /\ threw' = FALSE
       /\ encoded' = <<>>
       /\ ResetFresh
       /\ UNCHANGED <<mapping, mpPc, arg, vlqVars, svcVars>>

\* most segments of a frame with repeated columns
MaxRun == 4

\* structured frames in ascending order of generatedColumn in which a column
\* may repeat; the i-th segment refers to original line i
DuplicateFrames ==
    LET runs == UNION { { c \in [1..n -> 1..MaxColumn] :
                            \A i \in 1..(n - 1) : c[i] <= c[i + 1] } : n \in 1..MaxRun }
    IN  { Frame([ i \in 1..Len(c) |->
                    [line |-> i, column |-> 1, sourceIndex |-> 0, nameIndex |-> Null,
                     generatedLine |-> 1, generatedColumn |-> c[i]] ]) : c \in runs }

\* new MappingProvider(mapping) with a map of one of those frames
ConstructDuplicates ==
    \E f \in DuplicateFrames :
       ConstructWith([isArray |-> TRUE, str |-> <<>>, arr |-> <<f>>], 0, 0)

Next ==
    \/ Construct
    \/ Decode
    \/ Encode
    \/ FreshConstruct
    \/ FreshEncode

DecodeNext ==
    \/ Construct
    \/ Decode

LookupNext ==
    \/ Construct
    \/ GetSegment

OriginalNext ==
    \/ ConstructOriginal
    \/ GetOriginalSegment

DuplicatesNext ==
    \/ ConstructDuplicates
    \/ GetSegment

(***************************************************************************)
(* Properties of the mapping engine.                                       *)
(***************************************************************************)

\* every segment a provider holds, with its frame number
StoredSegments(map) ==
    UNION { { <<i, map[i].segments[j]>> : j \in 1..Len(map[i].segments) } :
              i \in 1..Len(map) }

\* C2: for every string b that encode() produces, a new provider built from
\* b exists and its encode() returns b again.
C2_EncodeRoundTrip ==
    (op = "encode" /\ freshPc # "none") =>
        /\ freshPc # "failed"
        /\ freshPc = "encoded" => freshOut = encoded

\* segments in strictly ascending order of generatedColumn
StrictlyAscending(segments) ==
    \A i \in 1..(Len(segments) - 1) :
        Lt(segments[i].generatedColumn, segments[i + 1].generatedColumn)

\* what a lookup of column under bias is to return from a frame's segments
ExpectedSegment(segments, column, bias) ==
    LET at == { i \in 1..Len(segments) : segments[i].generatedColumn = column }
        below == { i \in 1..Len(segments) : segments[i].generatedColumn < column }
        above == { i \in 1..Len(segments) : segments[i].generatedColumn > column }
        greatest(S) == CHOOSE i \in S : \A k \in S :
                          segments[k].generatedColumn <= segments[i].generatedColumn
        least(S) == CHOOSE i \in S : \A k \in S :
                          segments[k].generatedColumn >= segments[i].generatedColumn
    IN  IF at # {} THEN segments[CHOOSE i \in at : TRUE]
        ELSE IF bias = "LOWER_BOUND" /\ below # {} THEN segments[greatest(below)]
        ELSE IF bias = "UPPER_BOUND" /\ above # {} THEN segments[least(above)]
        ELSE NoSegment

\* the line of the last lookup names no frame, a null frame or an empty one
NoFrameAtQuery ==
    \/ query.line < 1
    \/ query.line > Len(mapping)
    \/ mapping[query.line].isNull
    \/ mapping[query.line].segments = <<>>

\* C4: on a frame in strictly ascending column order getSegment returns the
\* segment at the column if there is one; otherwise under LOWER_BOUND the
\* one with the greatest column below it, under UPPER_BOUND the one with the
\* least column above it, under BOUND none; and none when there is no such
\* segment, the line is below 1 or past the last frame, or the frame is empty.
C4_GetSegmentBias ==
    op = "getSegment" =>
        IF NoFrameAtQuery THEN ret = NoSegment
        ELSE StrictlyAscending(mapping[query.line].segments) =>
                ret = ExpectedSegment(mapping[query.line].segments, query.column, query.bias)

\* a LOWER_BOUND lookup of a column between two segments of a frame, which
\* returned the one below
C4_Witness ==
    /\ op = "getSegment"
    /\ query.bias = "LOWER_BOUND"
    /\ ~NoFrameAtQuery
    /\ Len(mapping[query.line].segments) >= 2
    /\ StrictlyAscending(mapping[query.line].segments)
    /\ ret = mapping[query.line].segments[1]
    /\ ret.generatedColumn < query.column
    /\ query.column < mapping[query.line].segments[2].generatedColumn

\* segments in ascending order of generatedColumn, repeats allowed
Ascending(segments) ==
    \A i \in 1..(Len(segments) - 1) :
        ~Gt(segments[i].generatedColumn, segments[i + 1].generatedColumn)

\* C28: on a frame in ascending order of generatedColumn, repeats allowed,
\* and for a column that no segment of the frame is at, getSegment returns
\* under LOWER_BOUND the segment of the highest index among those at a lower
\* column and under UPPER_BOUND the segment of the lowest index among those
\* at a higher column.
C28_DuplicateColumns ==
    (op = "getSegment" /\ ~NoFrameAtQuery) =>
        LET segments == mapping[query.line].segments
            below == { i \in 1..Len(segments) : Lt(segments[i].generatedColumn, query.column) }
            above == { i \in 1..Len(segments) : Gt(segments[i].generatedColumn, query.column) }
        IN  (/\ Ascending(segments)
             /\ \A i \in 1..Len(segments) : segments[i].generatedColumn # query.column) =>
               /\ (query.bias = "LOWER_BOUND" /\ below # {}) =>
                     ret = segments[CHOOSE i \in below : \A k \in below : k <= i]
               /\ (query.bias = "UPPER_BOUND" /\ above # {}) =>
                     ret = segments[CHOOSE i \in above : \A k \in above : i <= k]

\* a LOWER_BOUND lookup of a column between two runs of equal columns, which
\* returned the last segment of the run below
C28_Witness ==
    /\ op = "getSegment"
    /\ query.bias = "LOWER_BOUND"
    /\ ~NoFrameAtQuery
    /\ Len(mapping[query.line].segments) = 4
    /\ mapping[query.line].segments[1].generatedColumn
          = mapping[query.line].segments[2].generatedColumn
    /\ mapping[query.line].segments[2].generatedColumn < query.column
    /\ query.column < mapping[query.line].segments[3].generatedColumn
    /\ mapping[query.line].segments[3].generatedColumn
          = mapping[query.line].segments[4].generatedColumn
    /\ ret = mapping[query.line].segments[2]
    /\ ret # mapping[query.line].segments[1]

\* C5: every segment that decoding a string stored is what getSegment returns
\* under BOUND at the segment's own generatedLine and generatedColumn.
C5_Retrievable ==
    (op = "getSegment" /\ ~arg.isArray /\ query.bias = "BOUND") =>
        \A s \in StoredSegments(mapping) :
            (s[2].generatedLine = query.line /\ s[2].generatedColumn = query.column)
                => ret = s[2]

\* frames with every sourceIndex raised by sourcesBase, every present
\* nameIndex by namesBase and every generatedLine by linesBase
ShiftFrames(frames, linesBase, namesBase, sourcesBase) ==
    [ i \in 1..Len(frames) |->
        IF frames[i].isNull THEN frames[i]
        ELSE Frame([ j \in 1..Len(frames[i].segments) |->
                [frames[i].segments[j] EXCEPT
                    !.sourceIndex = Add(@, sourcesBase),
                    !.nameIndex = IF @ = Null THEN Null ELSE Add(@, namesBase),
                    !.generatedLine = Add(@, linesBase)] ]) ]

C11_AtomicDecode ==
    (op \in {"constructor", "decode"} /\ threw) => mapping = pre

\* the VLQ vectors of the comma-separated segments of a mappings string
SegmentVectors(encodedMap) ==
    LET frames == Split(encodedMap, ";")
    IN  UNION { { decodeVLQ(Split(frames[l], ",")[j]).result :
                    j \in 1..Len(Split(frames[l], ",")) } :
                l \in { k \in 1..Len(frames) : frames[k] # <<>> } }

\* C12: decoding a string in which some segment decodes to a VLQ vector
\* whose length is not 1, 4 or 5 raises an error.
C12_SegmentLength ==
    (/\ op \in {"constructor", "decode"}
     /\ ~arg.isArray
     /\ validateMappingString(arg.str)
     /\ \E v \in SegmentVectors(arg.str) : Len(v) \notin {1, 4, 5}) => threw

\* no coordinate of the segment is below its least value: 0 for the indexes,
\* 1 for the lines and columns
NonNegative(segment) ==
    /\ ~Lt(segment.sourceIndex, 0)
    /\ ~Lt(segment.nameIndex, 0)
    /\ ~Lt(segment.line, 1)
    /\ ~Lt(segment.column, 1)
    /\ ~Lt(segment.generatedColumn, 1)

\* C13: a string decode that does not raise an error stores no segment with
\* sourceIndex < 0, nameIndex < 0 or a line or column < 1, so a delta that
\* drives an accumulated coordinate below 0 makes the decode fail.
C13_NegativeCoordinate ==
    (op \in {"constructor", "decode"} /\ ~arg.isArray /\ ~threw) =>
        \A s \in StoredSegments(mapping) : s[1] > Len(pre) => NonNegative(s[2])

\* C16: getOriginalSegment returns a segment at exactly (sourceIndex, line,
\* column) whenever some frame holds one; otherwise, among the segments of
\* all frames with that sourceIndex and line, under LOWER_BOUND the one with
\* the greatest column below the target, under UPPER_BOUND the one with the
\* least column above it, under BOUND none; and none without a candidate.
C16_GetOriginalSegment ==
    op = "getOriginalSegment" =>
        LET same == { s \in { t[2] : t \in StoredSegments(mapping) } :
                        s.sourceIndex = query.sourceIndex /\ s.line = query.line }
            exact == { s \in same : s.column = query.column }
            below == { s \in same : Lt(s.column, query.column) }
            above == { s \in same : Gt(s.column, query.column) }
        IN  IF exact # {} THEN ret \in exact
            ELSE IF query.bias = "LOWER_BOUND" /\ below # {}
            THEN ret \in below /\ \A s \in below : s.column <= ret.column
            ELSE IF query.bias = "UPPER_BOUND" /\ above # {}
            THEN ret \in above /\ \A s \in above : s.column >= ret.column
            ELSE ret = NoSegment

\* every segment of frame j (counted from 1) has generatedLine j
LineDense(map) == \A s \in StoredSegments(map) : s[2].generatedLine = s[1]

DeltaAt(v, k) == IF k <= Len(v) THEN v[k] ELSE 0

\* the sum of the k-th deltas of a sequence of VLQ vectors
RECURSIVE SumDeltas(_, _)
SumDeltas(vectors, k) ==
    IF vectors = <<>> THEN 0
    ELSE DeltaAt(Head(vectors), k) + SumDeltas(Tail(vectors), k)

\* the VLQ vectors of the segments of one ';'-separated piece, in order
FrameVectors(piece) ==
    IF piece = <<>> THEN <<>>
    ELSE [ j \in 1..Len(Split(piece, ",")) |-> decodeVLQ(Split(piece, ",")[j]).result ]

\* the VLQ vectors of the pieces before the i-th, in order
RECURSIVE VectorsBefore(_, _)
VectorsBefore(pieces, i) ==
    IF i <= 1 THEN <<>>
    ELSE VectorsBefore(pieces, i - 1) \o FrameVectors(pieces[i - 1])

\* C24: in a string decoded with zero offsets, each segment's
\* generatedColumn - 1 is the sum of the generated-column deltas of the
\* segments of its own line up to and including it, and its sourceIndex,
\* line - 1, column - 1 and nameIndex are the sums of the corresponding
\* deltas of all segments of the string up to and including it, across
\* lines and empty frames (each for the deltas the segment has).
C24_Accumulators ==
    (/\ op \in {"constructor", "decode"}
     /\ ~arg.isArray
     /\ ~threw
     /\ arg.namesOffset = 0
     /\ arg.sourcesOffset = 0) =>
        LET pieces == Split(arg.str, ";")
        IN  \A i \in 1..Len(pieces) :
               \A j \in 1..Len(FrameVectors(pieces[i])) :
                  LET own == SubSeq(FrameVectors(pieces[i]), 1, j)
                      all == VectorsBefore(pieces, i) \o own
                      segment == mapping[Len(pre) + i].segments[j]
                  IN  /\ segment.generatedColumn - 1 = SumDeltas(own, 1)
                      /\ Len(own[j]) >= 2 => segment.sourceIndex = SumDeltas(all, 2)
                      /\ Len(own[j]) >= 3 => segment.line - 1 = SumDeltas(all, 3)
                      /\ Len(own[j]) >= 4 => segment.column - 1 = SumDeltas(all, 4)
                      /\ Len(own[j]) >= 5 => segment.nameIndex = SumDeltas(all, 5)

\* C25: a segment whose VLQ vector has one number is stored with
\* sourceIndex, line, column and nameIndex none and with the generated
\* column its delta gives on its line, and every later segment of the string
\* with four or five numbers has the sourceIndex, line and column that the
\* deltas of the segments before it add up to.
C25_SingleField ==
    (op \in {"constructor", "decode"} /\ ~arg.isArray /\ ~threw) =>
        LET pieces == Split(arg.str, ";")
            vectors(i) == FrameVectors(pieces[i])
            stored(i, j) == mapping[Len(pre) + i].segments[j]
        IN  \A i \in 1..Len(pieces) :
               \A j \in 1..Len(vectors(i)) :
                  Len(vectors(i)[j]) = 1 =>
                     /\ stored(i, j).sourceIndex = Null
                     /\ stored(i, j).line = Null
                     /\ stored(i, j).column = Null
                     /\ stored(i, j).nameIndex = Null
                     /\ stored(i, j).generatedColumn - 1
                           = SumDeltas(SubSeq(vectors(i), 1, j), 1)
                     /\ \A i2 \in i..Len(pieces) :
                           \A j2 \in 1..Len(vectors(i2)) :
                              (/\ i2 > i \/ j2 > j
                               /\ Len(vectors(i2)[j2]) \in {4, 5}) =>
                                 LET all == VectorsBefore(pieces, i2)
                                            \o SubSeq(vectors(i2), 1, j2)
                                 IN  /\ stored(i2, j2).sourceIndex
                                           = arg.sourcesOffset + SumDeltas(all, 2)
                                     /\ stored(i2, j2).line - 1 = SumDeltas(all, 3)
                                     /\ stored(i2, j2).column - 1 = SumDeltas(all, 4)

\* C26: after the constructor and after every successful decode() the
\* segments of each non-empty frame are in strictly ascending order of
\* generatedColumn.
C26_SortedFrames ==
    (mpPc \in {"ready", "extended"} /\ ~threw) =>
        \A i \in 1..Len(mapping) :
            ~mapping[i].isNull => StrictlyAscending(mapping[i].segments)

(***************************************************************************)
(* The codec as a state machine: encode an array, then decode the result.  *)
(***************************************************************************)

\* longest number array handed to encodeArrayVLQ
MaxVlqLen == 2

\* the numbers tried: around zero, around the one/two digit boundary, and
\* around the magnitudes 2^30 and 2^31 where the carrier fills 32 bits
VlqNumbers ==
    { 0, 1, -1, 10, -10, 15, -15, 16, -16, 18, -18, 511, -512,
      Pow2(30) - 1, 1 - Pow2(30), Pow2(30), -Pow2(30), Pow2(30) + 1,
      MaxInt32, -MaxInt32, MinInt32 }

VlqInit ==
    /\ vlqIn = <<>>
    /\ vlqEnc = <<>>
    /\ vlqDec = [ok |-> TRUE, result |-> <<>>, char |-> ""]
    /\ vlqPc = "idle"

VlqEncode ==
    /\ vlqPc = "idle"
    /\ \E xs \in SeqsUpTo(VlqNumbers, MaxVlqLen) :
          /\ vlqIn' = xs
          /\ vlqEnc' = encodeArrayVLQ(xs)
    /\ vlqPc' = "encoded"
    /\ UNCHANGED <<vlqDec, mpVars, svcVars>>

VlqDecode ==
    /\ vlqPc = "encoded"
    /\ vlqDec' = decodeVLQ(vlqEnc)
    /\ vlqPc' = "decoded"
    /\ UNCHANGED <<vlqIn, vlqEnc, mpVars, svcVars>>

VlqNext == VlqEncode \/ VlqDecode

\* longest string handed to decodeVLQ directly
MaxTextLen == 3

\* the characters of those strings: digits without and with the
\* continuation bit, and characters outside the alphabet
TextChars == {"A", "D", "g", "!", "@", "#"}

\* decodeVLQ(data) of a string that no encoder produced
VlqDecodeText ==
    /\ vlqPc = "idle"
    /\ \E data \in SeqsUpTo(TextChars, MaxTextLen) :
          /\ vlqEnc' = data
          /\ vlqDec' = decodeVLQ(data)
    /\ vlqPc' = "text"
    /\ UNCHANGED <<vlqIn, mpVars, svcVars>>

TextNext == VlqDecodeText

\* C1: decodeVLQ(encodeArrayVLQ(xs)) = xs for every array xs of signed
\* 32-bit integers, the magnitudes at and above 2^30 included.
C1_RoundTrip ==
    vlqPc = "decoded" => (vlqDec.ok /\ vlqDec.result = vlqIn)

\* the base-32 digits of a natural number, least significant first
RECURSIVE Base32Digits(_)
Base32Digits(w) == IF w < 32 THEN <<w>> ELSE <<w % 32>> \o Base32Digits(w \div 32)

\* the reference encoding of v: the base-32 digits, least significant first,
\* of the carrier 2 * |v| + (1 if v < 0 else 0), the continuation bit set on
\* every digit but the last, each digit written in the alphabet.  The first
\* digit holds the sign and the low four bits of |v|; the others are the
\* digits of |v| \div 16.
ReferenceVLQ(v) ==
    LET sign == IF v < 0 THEN 1 ELSE 0
        less == IF v < 0 THEN -(v + 1) ELSE v
        low  == IF v < 0 THEN ((less % 16) + 1) % 16 ELSE v % 16
        high == IF v < 0 THEN (less \div 16) + (IF less % 16 = 15 THEN 1 ELSE 0)
                         ELSE v \div 16
        digits == <<(2 * low) + sign>> \o (IF high = 0 THEN <<>> ELSE Base32Digits(high))
    IN  [ i \in 1..Len(digits) |->
            base64Chars[digits[i] + (IF i < Len(digits) THEN 32 ELSE 0) + 1] ]

RECURSIVE ReferenceArrayVLQ(_)
ReferenceArrayVLQ(values) ==
    IF values = <<>> THEN <<>>
    ELSE ReferenceVLQ(Head(values)) \o ReferenceArrayVLQ(Tail(values))

\* C20: encodeVLQ(v) is the reference encoding of v and has at least one
\* character, for every signed 32-bit v; 0 gives "A", 1 "C", -1 "D", -10 "V",
\* 18 "kB", and [0,1,-1,-18,18,-18] gives "ACDlBkBlB".
C20_ReferenceEncoding ==
    /\ vlqPc # "idle" =>
          /\ vlqEnc = ReferenceArrayVLQ(vlqIn)
          /\ Len(vlqEnc) >= Len(vlqIn)
    /\ encodeVLQ(0) = <<"A">>
    /\ encodeVLQ(1) = <<"C">>
    /\ encodeVLQ(-1) = <<"D">>
    /\ encodeVLQ(-10) = <<"V">>
    /\ encodeVLQ(18) = <<"k", "B">>
    /\ encodeArrayVLQ(<<0, 1, -1, -18, 18, -18>>)
          = <<"A", "C", "D", "l", "B", "k", "B", "l", "B">>

\* C21: decodeVLQ of a string with a character outside the 64-character
\* alphabet raises the invalid-character error naming the first such
\* character ('!@#' reports '!') and returns no number.
C21_InvalidCharacter ==
    /\ vlqPc = "text" =>
          LET bad == { i \in 1..Len(vlqEnc) : vlqEnc[i] \notin Base64Alphabet }
          IN  bad # {} =>
                 /\ ~vlqDec.ok
                 /\ vlqDec.result = <<>>
                 /\ vlqDec.char = vlqEnc[CHOOSE i \in bad : \A k \in bad : i <= k]
    /\ ~decodeVLQ(<<"!", "@", "#">>).ok
    /\ decodeVLQ(<<"!", "@", "#">>).char = "!"

\* a string of a complete number followed by two different characters
\* outside the alphabet, whose decoding named the first of the two
C21_Witness ==
    /\ vlqPc = "text"
    /\ Len(vlqEnc) = 3
    /\ vlqEnc[1] = "D"
    /\ vlqEnc[2] \notin Base64Alphabet
    /\ vlqEnc[3] \notin Base64Alphabet
    /\ vlqEnc[2] # vlqEnc[3]
    /\ ~vlqDec.ok
    /\ vlqDec.char = vlqEnc[2]

(***************************************************************************)
(* SourceService (services/source.service.ts).  this.mappings is one flat  *)
(* list of mapping records; a source map is a record of names, sources,    *)
(* sourcesContent and the mappings string.                                 *)
(***************************************************************************)

\* the thresholdSegment argument of decodeMappings when it is left out
NoThreshold == [present |-> FALSE, nameIndex |-> 0, fileIndex |-> 0, generatedLine |-> 0]

Threshold(nameIndex, fileIndex, generatedLine) ==
    [present |-> TRUE, nameIndex |-> nameIndex, fileIndex |-> fileIndex,
     generatedLine |-> generatedLine]

\* if (x) on a number or null: 0, NaN, null and undefined are falsy
Truthy(x) == IsNumber(x) /\ x # 0

\* String.prototype.repeat(count) of a one-character string
RECURSIVE Repeat(_, _)
Repeat(char, count) == IF count <= 0 THEN <<>> ELSE <<char>> \o Repeat(char, count - 1)

\* the updated shift and the record SourceService.decodedSegment pushes
SourceService_decodedSegment(shift, decoded, generatedLine) ==
    LET generatedColumn == ElementAt(decoded, 1)
        fileIndex == ElementAt(decoded, 2)
        sourceLine == ElementAt(decoded, 3)
        sourceColumn == ElementAt(decoded, 4)
        nameIndex == ElementAt(decoded, 5)
        shifted == [shift EXCEPT
                      !.fileIndex = Add(@, fileIndex),
                      !.nameIndex = Add(@, IF nameIndex = Undefined THEN 0 ELSE nameIndex),
                      !.sourceLine = Add(@, sourceLine),
                      !.sourceColumn = Add(@, sourceColumn),
                      !.generatedColumn = Add(@, generatedColumn)]
    IN  [shift |-> shifted,
         map |-> [nameIndex |-> IF nameIndex # Undefined THEN shifted.nameIndex ELSE Null,
                  fileIndex |-> shifted.fileIndex,
                  sourceLine |-> shifted.sourceLine,
                  sourceColumn |-> shifted.sourceColumn,
                  generatedLine |-> generatedLine,
                  generatedColumn |-> shifted.generatedColumn]]

\* the inner loop of SourceService.decodeMappings from segment i on; ok is
\* false when decodeVLQ throws
RECURSIVE SourceService_decodeSegments(_, _, _, _, _)
SourceService_decodeSegments(thisMappings, segments, i, shift, generatedLine) ==
    IF i > Len(segments) THEN [ok |-> TRUE, shift |-> shift, mappings |-> thisMappings]
    ELSE IF Len(segments[i]) < 4
    THEN SourceService_decodeSegments(thisMappings, segments, i + 1, shift, generatedLine)
    ELSE LET vlq == decodeVLQ(segments[i])
         IN  IF ~vlq.ok
             THEN [ok |-> FALSE, shift |-> shift, mappings |-> thisMappings]
             ELSE LET d == SourceService_decodedSegment(shift, vlq.result, generatedLine)
                  IN  SourceService_decodeSegments(Append(thisMappings, d.map), segments,
                                                   i + 1, d.shift, generatedLine)

\* the outer loop of SourceService.decodeMappings from line index (from 0) on
RECURSIVE SourceService_decodeLines(_, _, _, _)
SourceService_decodeLines(thisMappings, lines, index, shift) ==
    IF index >= Len(lines) THEN [threw |-> FALSE, mappings |-> thisMappings]
    ELSE IF lines[index + 1] = <<>>
    THEN SourceService_decodeLines(thisMappings, lines, index + 1, shift)
    ELSE LET r == SourceService_decodeSegments(thisMappings, Split(lines[index + 1], ","), 1,
                                               [shift EXCEPT !.generatedColumn = 1],
                                               index + shift.generatedLine)
         IN  IF ~r.ok THEN [threw |-> TRUE, mappings |-> r.mappings]
             ELSE SourceService_decodeLines(r.mappings, lines, index + 1, r.shift)

\* this.mappings after SourceService.decodeMappings, and whether it threw
SourceService_decodeMappings(thisMappings, encodedMappings, thresholdSegment) ==
    LET t == thresholdSegment
        shift == [fileIndex |-> IF t.present THEN t.fileIndex ELSE 0,
                  nameIndex |-> IF t.present THEN t.nameIndex ELSE 0,
                  sourceLine |-> 1,
                  sourceColumn |-> 1,
                  generatedLine |-> IF t.present THEN t.generatedLine ELSE 1,
                  generatedColumn |-> 1]
    IN  SourceService_decodeLines(thisMappings, Split(encodedMappings, ";"), 0, shift)

\* the updated shift and the string SourceService.encodeSegment pushes
SourceService_encodeSegment(map, shift) ==
    LET sourceIndex == map.fileIndex
        moved == StrictNe(sourceIndex, shift.fileIndex)
        named == Truthy(map.nameIndex)
        segment ==
            << Sub(map.generatedColumn, shift.generatedColumn),
               IF moved THEN Sub(sourceIndex, shift.fileIndex) ELSE 0,
               Sub(map.sourceLine, shift.sourceLine),
               Sub(map.sourceColumn, shift.sourceColumn) >>
            \o (IF named THEN <<Sub(map.nameIndex, shift.nameIndex)>> ELSE <<>>)
    IN  [shift |-> [shift EXCEPT
                      !.fileIndex = IF moved THEN sourceIndex ELSE @,
                      !.nameIndex = IF named THEN map.nameIndex ELSE @,
                      !.sourceLine = map.sourceLine,
                      !.sourceColumn = map.sourceColumn,
                      !.generatedColumn = map.generatedColumn],
         string |-> encodeArrayVLQ(NumberOperands(segment))]

\* the for loop of SourceService.encodeMappings from mapping i on, and its return
RECURSIVE SourceService_encodeLoop(_, _, _, _, _)
SourceService_encodeLoop(thisMappings, i, resultMapping, segments, shift) ==
    IF i > Len(thisMappings) THEN resultMapping \o Join(segments, ",") \o <<";">>
    ELSE LET map == thisMappings[i]
             newLine == map.generatedLine # shift.generatedLine
             result == IF newLine
                       THEN resultMapping \o Join(segments, ",")
                            \o Repeat(";", IF map.generatedLine - shift.generatedLine > 1
                                           THEN map.generatedLine - shift.generatedLine
                                           ELSE 1)
                       ELSE resultMapping
             atLine == IF newLine
                       THEN [shift EXCEPT !.generatedLine = map.generatedLine,
                                          !.generatedColumn = 1]
                       ELSE shift
             e == SourceService_encodeSegment(map, atLine)
         IN  SourceService_encodeLoop(thisMappings, i + 1, result,
                                      Append(IF newLine THEN <<>> ELSE segments, e.string),
                                      e.shift)

\* SourceService.encodeMappings: reading mappings[0].generatedLine of an
\* empty list throws a TypeError
SourceService_encodeMappings(thisMappings) ==
    IF thisMappings = <<>> THEN [threw |-> TRUE, string |-> <<>>]
    ELSE LET first == thisMappings[1].generatedLine
             shift == [fileIndex |-> 0, nameIndex |-> 0, sourceLine |-> 1,
                       sourceColumn |-> 1, generatedLine |-> first, generatedColumn |-> 1]
         IN  [threw |-> FALSE,
              string |-> SourceService_encodeLoop(thisMappings, 1, Repeat(";", first - 1),
                                                  <<>>, shift)]

\* the service's four lists after the for loop of SourceService.concat from
\* map i on, and the error that ended it ("none" when it completed)
RECURSIVE SourceService_concatFrom(_, _, _)
SourceService_concatFrom(service, maps, i) ==
    IF i > Len(maps) THEN [error |-> "none", service |-> service]
    ELSE LET map == maps[i]
             pushed == [service EXCEPT
                          !.names = @ \o map.names,
                          !.sources = @ \o map.sources,
                          !.sourcesContent = @ \o map.sourcesContent]
             lastSegment == pushed.mappings[Len(pushed.mappings)]
             content == pushed.sourcesContent[lastSegment.fileIndex + 1]
             lines == Len(Split(content, "\n"))
             r == SourceService_decodeMappings(pushed.mappings, maps[1].mappings,
                     Threshold(Len(pushed.names) - 1, Len(pushed.sources) - 1,
                               IF lines < 2 THEN 2 ELSE lines))
         IN  IF pushed.mappings = <<>>
             THEN [error |-> "TypeError", service |-> pushed]
             ELSE IF ~IsNumber(lastSegment.fileIndex)
                     \/ lastSegment.fileIndex + 1 \notin 1..Len(pushed.sourcesContent)
             THEN [error |-> "TypeError", service |-> pushed]
             ELSE IF r.threw
             THEN [error |-> "Error decoding mappings",
                   service |-> [pushed EXCEPT !.mappings = r.mappings]]
             ELSE SourceService_concatFrom([pushed EXCEPT !.mappings = r.mappings], maps, i + 1)

\* SourceService.concat(...maps)
SourceService_concat(service, maps) ==
    IF Len(maps) < 1
    THEN [error |-> "At least one map must be provided for concatenation.",
          service |-> service]
    ELSE SourceService_concatFrom(service, maps, 1)

\* the keys validateSourceMap looks for
requiredKeys == {"version", "sources", "sourcesContent", "mappings", "names"}

\* SourceService.validateSourceMap: true when it does not throw
validateSourceMap(input) == \A key \in requiredKeys : key \in input.keys

\* findMapping's null result
NoMapping ==
    [nameIndex |-> Null, fileIndex |-> Null, sourceLine |-> Null, sourceColumn |-> Null,
     generatedLine |-> Null, generatedColumn |-> Null]

\* the while loop of SourceService.findMapping and its return
RECURSIVE SourceService_findLoop(_, _, _, _, _, _, _)
SourceService_findLoop(thisMappings, targetLine, targetColumn, bias, startIndex, endIndex, closestMapping) ==
    IF startIndex > endIndex
    THEN IF closestMapping # NoMapping /\ closestMapping.generatedLine = targetLine
         THEN closestMapping ELSE NoMapping
    ELSE LET middleIndex == (startIndex + endIndex) \div 2
             currentMapping == thisMappings[middleIndex + 1]
         IN  IF Lt(currentMapping.generatedLine, targetLine)
             THEN SourceService_findLoop(thisMappings, targetLine, targetColumn, bias,
                                         middleIndex + 1, endIndex, closestMapping)
             ELSE IF Gt(currentMapping.generatedLine, targetLine)
             THEN SourceService_findLoop(thisMappings, targetLine, targetColumn, bias,
                                         startIndex, middleIndex - 1, closestMapping)
             ELSE IF Lt(currentMapping.generatedColumn, targetColumn)
             THEN SourceService_findLoop(thisMappings, targetLine, targetColumn, bias,
                    middleIndex + 1, endIndex,
                    IF bias = "LOWER_BOUND" THEN currentMapping ELSE closestMapping)
             ELSE IF Gt(currentMapping.generatedColumn, targetColumn)
             THEN SourceService_findLoop(thisMappings, targetLine, targetColumn, bias,
                    startIndex, middleIndex - 1,
                    IF bias = "UPPER_BOUND" THEN currentMapping ELSE closestMapping)
             ELSE currentMapping

SourceService_findMapping(thisMappings, targetLine, targetColumn, bias) ==
    SourceService_findLoop(thisMappings, targetLine, targetColumn, bias,
                           0, Len(thisMappings) - 1, NoMapping)

\* array[index] of an array of strings, index counted from 0; the empty
\* sequence stands for undefined and null
StringAt(array, index) ==
    IF IsNumber(index) /\ index + 1 \in 1..Len(array) THEN <<array[index + 1]>> ELSE <<>>

\* Array.prototype.slice(start, end) for 0 <= start and 0 <= end <= length
Slice(array, start, end) == SubSeq(array, start + 1, end)

Max(a, b) == IF a >= b THEN a ELSE b

Min(a, b) == IF a <= b THEN a ELSE b

\* the options of getSourcePosition that were left out take their defaults
Settings(options) ==
    [bias |-> IF "bias" \in options.keys THEN options.bias ELSE "LOWER_BOUND",
     linesAfter |-> IF "linesAfter" \in options.keys THEN options.linesAfter ELSE 4,
     linesBefore |-> IF "linesBefore" \in options.keys THEN options.linesBefore ELSE 3]

\* what getSourcePosition and getPosition return when they return null
NoResult ==
    [isNull |-> TRUE, code |-> <<>>, line |-> Null, column |-> Null, endLine |-> Null,
     startLine |-> Null, name |-> <<>>, source |-> <<>>]

\* SourceService.getSourcePosition: the mapping found, whether the call
\* threw (a TypeError, reading split of undefined) and what it returned
SourceService_getSourcePosition(service, line, column, options) ==
    LET settings == Settings(options)
        map == SourceService_findMapping(service.mappings, line, column, settings.bias)
    IN  IF map = NoMapping \/ map.fileIndex \in {NaN, Undefined}
        THEN [threw |-> FALSE, map |-> map, result |-> NoResult]
        ELSE IF StringAt(service.sourcesContent, map.fileIndex) = <<>>
        THEN [threw |-> TRUE, map |-> map, result |-> NoResult]
        ELSE LET code == Split(service.sourcesContent[map.fileIndex + 1], "\n")
                 sourceLine == IF map.sourceLine \in {Null, Undefined} THEN 1
                               ELSE map.sourceLine
                 endLine == Add(sourceLine, settings.linesAfter)
                 startLine == Max(Sub(sourceLine, settings.linesBefore), 0)
                 relevantCode == Join(Slice(code, startLine, Min(endLine + 1, Len(code))),
                                      "\n")
             IN  [threw |-> FALSE, map |-> map,
                  result |-> [isNull |-> FALSE, code |-> relevantCode,
                              line |-> map.sourceLine, column |-> map.sourceColumn,
                              endLine |-> endLine, startLine |-> startLine,
                              name |-> StringAt(service.names, map.nameIndex),
                              source |-> StringAt(service.sources, map.fileIndex)]]

\* SourceService.getPosition
SourceService_getPosition(service, line, column, bias) ==
    LET map == SourceService_findMapping(service.mappings, line, column, bias)
    IN  IF map = NoMapping
        THEN [threw |-> FALSE, map |-> map, result |-> NoResult]
        ELSE [threw |-> FALSE, map |-> map,
              result |-> [isNull |-> FALSE, code |-> <<>>,
                          line |-> map.sourceLine, column |-> map.sourceColumn,
                          endLine |-> Null, startLine |-> Null,
                          name |-> StringAt(service.names, map.nameIndex),
                          source |-> StringAt(service.sources, map.fileIndex)]]

(***************************************************************************)
(* SourceService as a state machine: the constructor, concat(),            *)
(* getMapObject(), getSourcePosition() and getPosition().                  *)
(***************************************************************************)

\* most concat() calls on one service
MaxConcats == 2

\* most maps handed to one concat() call
MaxMaps == 2

\* source contents of one line and of three lines
OneLine == <<"x">>

ThreeLines == <<"x", "\n", "y", "\n", "z">>

\* the names, sources and sourcesContent of the source maps tried
Shapes ==
    { [names |-> <<>>, sources |-> <<"a.ts">>, sourcesContent |-> <<OneLine>>],
      [names |-> <<"n">>, sources |-> <<"b.ts">>, sourcesContent |-> <<ThreeLines>>],
      [names |-> <<"m">>, sources |-> <<"c.ts", "d.ts">>,
       sourcesContent |-> <<OneLine, ThreeLines>>] }

\* the mappings strings of the source maps tried: "", "AAAA", "AAAA;",
\* "AAAAA", "AAAA,CAAA", "ACAA", ";AAAA", and one outside the character set
EnvelopeMappings ==
    { <<>>,
      StringOf(<< <<0, 0, 0, 0>> >>, 1),
      StringOf(<< <<0, 0, 0, 0>>, LineEnd >>, 1),
      StringOf(<< <<0, 0, 0, 0, 0>> >>, 1),
      StringOf(<< <<0, 0, 0, 0>>, <<1, 0, 0, 0>> >>, 1),
      StringOf(<< <<0, 1, 0, 0>> >>, 1),
      StringOf(<< LineEnd, <<0, 0, 0, 0>> >>, 1),
      <<"A", "!", "A", "A">> }

\* every key of SourceMapInterface
SourceMapKeys == requiredKeys \cup {"file", "sourceRoot"}

\* a source map with every key; keys is the set of keys the object has
SourceMap(shape, encodedMappings) ==
    [keys |-> SourceMapKeys, version |-> 3, file |-> <<"bundle.js">>,
     sourceRoot |-> <<"src">>, names |-> shape.names, sources |-> shape.sources,
     sourcesContent |-> shape.sourcesContent, mappings |-> encodedMappings]

\* the source maps with every key
ShapedEnvelopes == { SourceMap(shape, m) : shape \in Shapes, m \in EnvelopeMappings }

\* the same source map without one of its keys, and with version 2
KeyEnvelopes ==
    LET map == SourceMap([names |-> <<"n">>, sources |-> <<"b.ts">>,
                          sourcesContent |-> <<ThreeLines>>],
                         StringOf(<< <<0, 0, 0, 0>> >>, 1))
    IN  { [map EXCEPT !.keys = @ \ {key}] : key \in SourceMapKeys }
        \cup { [map EXCEPT !.version = 2] }

\* source maps with two sources and the content of the first only, mapping
\* the first source ("AAAA") and the second ("ACAA")
ShortEnvelopes ==
    { SourceMap([names |-> <<>>, sources |-> <<"e.ts", "f.ts">>,
                 sourcesContent |-> <<ThreeLines>>], m) :
        m \in { StringOf(<< <<0, 0, 0, 0>> >>, 1), StringOf(<< <<0, 1, 0, 0>> >>, 1) } }

\* the source maps the constructor is given
Envelopes == ShapedEnvelopes \cup KeyEnvelopes \cup ShortEnvelopes

\* the source maps concat() is given
ConcatMaps ==
    { e \in ShapedEnvelopes :
        \/ Len(e.sources) = 1 /\ e.names = <<>> /\ e.mappings = StringOf(<< <<0, 0, 0, 0>> >>, 1)
        \/ Len(e.sources) = 1 /\ e.names = <<>> /\ e.mappings = <<"A", "!", "A", "A">>
        \/ Len(e.sources) = 1 /\ e.names # <<>>
              /\ e.mappings = StringOf(<< <<0, 0, 0, 0>>, <<1, 0, 0, 0>> >>, 1)
        \/ Len(e.sources) = 2 /\ e.mappings = StringOf(<< <<0, 1, 0, 0>> >>, 1) }

\* the service's four lists
This ==
    [names |-> names, sources |-> sources, sourcesContent |-> sourcesContent,
     mappings |-> mappings]

NoEnvelope == [names |-> <<>>, sources |-> <<>>, sourcesContent |-> <<>>, mappings |-> <<>>]

NoArrays == [names |-> <<>>, sources |-> <<>>, sourcesContent |-> <<>>]

\* the arrays of the constructor's argument once the service's arrays are
\* held: this.names = source.names ?? [] keeps the argument's own array, so
\* what is pushed to this.names is pushed to it, and likewise for sources
\* and sourcesContent
SharedArrays(source, held) ==
    [names |-> IF "names" \in source.keys THEN held.names ELSE source.names,
     sources |-> IF "sources" \in source.keys THEN held.sources ELSE source.sources,
     sourcesContent |-> IF "sourcesContent" \in source.keys THEN held.sourcesContent
                        ELSE source.sourcesContent]

NoCall == [made |-> FALSE, maps |-> <<>>, error |-> "none", pre |-> NoEnvelope]

NoSerial == [done |-> FALSE, threw |-> FALSE, mappings |-> <<>>, text |-> FALSE]

NoPosition ==
    [op |-> "none", line |-> 0, column |-> 0, settings |-> Settings([keys |-> {}]),
     threw |-> FALSE, map |-> NoMapping, result |-> NoResult]

\* the options getSourcePosition is given: none, a bias only, and a window
\* of two lines before and one after
OptionsTried ==
    { [keys |-> {}, bias |-> "LOWER_BOUND", linesAfter |-> 4, linesBefore |-> 3],
      [keys |-> {"bias"}, bias |-> "BOUND", linesAfter |-> 4, linesBefore |-> 3],
      [keys |-> {"bias"}, bias |-> "UPPER_BOUND", linesAfter |-> 4, linesBefore |-> 3],
      [keys |-> {"linesAfter", "linesBefore"}, bias |-> "LOWER_BOUND",
       linesAfter |-> 1, linesBefore |-> 2] }

SvcInit ==
    /\ file = <<>>
    /\ sourceRoot = <<>>
    /\ svcError = "none"
    /\ position = NoPosition
    /\ names = <<>>
    /\ sources = <<>>
    /\ sourcesContent = <<>>
    /\ mappings = <<>>
    /\ svcPc = "none"
    /\ envelope = NoEnvelope
    /\ caller = NoArrays
    /\ concats = 0
    /\ given = <<>>
    /\ call = NoCall
    /\ serial = NoSerial

\* new SourceService(source): validateSourceMap throws before any field is
\* set; the optional keys left out read as undefined and become null
SvcConstruct ==
    /\ svcPc = "none"
    /\ \E source \in Envelopes :
          LET r == SourceService_decodeMappings(<<>>, source.mappings, NoThreshold)
          IN  /\ envelope' = source
              /\ caller' = [names |-> source.names, sources |-> source.sources,
                            sourcesContent |-> source.sourcesContent]
              /\ IF ~validateSourceMap(source)
                 THEN /\ svcPc' = "failed"
                      /\ svcError' = "Missing required keys in SourceMap."
                      /\ UNCHANGED <<file, sourceRoot, names, sources, sourcesContent,
                                     mappings>>
                 ELSE /\ file' = IF "file" \in source.keys THEN source.file ELSE <<>>
                      /\ sourceRoot' = IF "sourceRoot" \in source.keys
                                       THEN source.sourceRoot ELSE <<>>
                      /\ names' = source.names
                      /\ sources' = source.sources
                      /\ sourcesContent' = source.sourcesContent
                      /\ mappings' = r.mappings
                      /\ svcPc' = IF r.threw THEN "failed" ELSE "ready"
                      /\ svcError' = IF r.threw THEN "Error decoding mappings" ELSE "none"
    /\ UNCHANGED <<concats, given, call, serial, position, vlqVars, mpVars>>

\* service.concat(...maps)
Concat ==
    /\ svcPc = "ready"
    /\ concats < MaxConcats
    /\ concats' = concats + 1
    /\ \E maps \in SeqsUpTo(ConcatMaps, MaxMaps) :
          LET r == SourceService_concat(This, maps)
          IN  /\ names' = r.service.names
              /\ sources' = r.service.sources
              /\ sourcesContent' = r.service.sourcesContent
              /\ mappings' = r.service.mappings
              /\ caller' = SharedArrays(envelope, r.service)
              /\ call' = [made |-> TRUE, maps |-> maps, error |-> r.error, pre |-> This]
              /\ given' = given \o maps
    /\ serial' = NoSerial
    /\ position' = NoPosition
    /\ UNCHANGED <<file, sourceRoot, svcPc, svcError, envelope, vlqVars, mpVars>>

\* service.getMapObject(), of which the mappings field is kept
GetMapObject ==
    /\ svcPc = "ready"
    /\ ~serial.done
    /\ LET r == SourceService_encodeMappings(mappings)
       IN  serial' = [done |-> TRUE, threw |-> r.threw, mappings |-> r.string,
                      text |-> FALSE]
    /\ position' = NoPosition
    /\ UNCHANGED <<file, sourceRoot, names, sources, sourcesContent, mappings, svcPc,
                   svcError, envelope, caller, concats, given, call, vlqVars, mpVars>>

\* service.toString(): JSON.stringify(this.getMapObject()), of which the
\* mappings field of the text is kept
ToStringCall ==
    /\ svcPc = "ready"
    /\ ~serial.done
    /\ LET r == SourceService_encodeMappings(mappings)
       IN  serial' = [done |-> TRUE, threw |-> r.threw, mappings |-> r.string,
                      text |-> TRUE]
    /\ position' = NoPosition
    /\ UNCHANGED <<file, sourceRoot, names, sources, sourcesContent, mappings, svcPc,
                   svcError, envelope, caller, concats, given, call, vlqVars, mpVars>>

\* service.getSourcePosition(line, column, options)
GetSourcePosition ==
    /\ svcPc = "ready"
    /\ \E line \in 0..3, column \in 0..3, options \in OptionsTried :
          LET r == SourceService_getSourcePosition(This, line, column, options)
          IN  position' = [op |-> "getSourcePosition", line |-> line, column |-> column,
                           settings |-> Settings(options), threw |-> r.threw,
                           map |-> r.map, result |-> r.result]
    /\ serial' = NoSerial
    /\ UNCHANGED <<file, sourceRoot, names, sources, sourcesContent, mappings, svcPc,
                   svcError, envelope, caller, concats, given, call, vlqVars, mpVars>>

\* service.getPosition(line, column, bias)
GetPosition ==
    /\ svcPc = "ready"
    /\ \E line \in 0..3, column \in 0..3, bias \in Bias :
          LET r == SourceService_getPosition(This, line, column, bias)
          IN  position' = [op |-> "getPosition", line |-> line, column |-> column,
                           settings |-> Settings([keys |-> {"bias"}, bias |-> bias]),
                           threw |-> r.threw, map |-> r.map, result |-> r.result]
    /\ serial' = NoSerial
    /\ UNCHANGED <<file, sourceRoot, names, sources, sourcesContent, mappings, svcPc,
                   svcError, envelope, caller, concats, given, call, vlqVars, mpVars>>

SvcNext ==
    \/ SvcConstruct
    \/ Concat
    \/ GetMapObject

QueryNext ==
    \/ SvcConstruct
    \/ GetSourcePosition
    \/ GetPosition

\* the calls that only read, on a provider or on a service: a behaviour
\* builds one of the two, the provider from a map of one frame, and reads
\* from it
ReadOnlyNext ==
    \/ svcPc = "none" /\ ConstructOriginal /\ Len(mapping') = 1
    \/ GetSegment
    \/ GetOriginalSegment
    \/ Encode
    \/ mpPc = "none" /\ SvcConstruct
    \/ GetSourcePosition
    \/ GetPosition
    \/ GetMapObject
    \/ ToStringCall

(***************************************************************************)
(* Properties of the source-map service.                                   *)
(***************************************************************************)

\* a segment text that is the VLQ encoding of four or five numbers
PlainSegment(text) ==
    LET vlq == decodeVLQ(text)
    IN  /\ vlq.ok
        /\ Len(vlq.result) \in {4, 5}
        /\ encodeArrayVLQ(vlq.result) = text

\* a non-empty mappings string without duplicate or redundant encodings:
\* every segment is a plain one, and after the first segment of a line each
\* segment moves to a later generated column
Canonical(encodedMappings) ==
    /\ encodedMappings # <<>>
    /\ \A l \in 1..Len(Split(encodedMappings, ";")) :
          LET line == Split(encodedMappings, ";")[l]
              texts == Split(line, ",")
          IN  line # <<>> =>
                 \A j \in 1..Len(texts) :
                    /\ PlainSegment(texts[j])
                    /\ j > 1 => decodeVLQ(texts[j]).result[1] > 0

\* C3: for a source map E without duplicate or redundant encodings,
\* new SourceService(E).getMapObject().mappings is E.mappings, character for
\* character.
C3_MappingsRoundTrip ==
    (serial.done /\ concats = 0 /\ Canonical(envelope.mappings)) =>
        /\ ~serial.threw
        /\ serial.mappings = envelope.mappings

\* mapping records with every fileIndex raised by sourcesBase, every present
\* nameIndex by namesBase and every generatedLine by linesBase
ShiftMappings(list, linesBase, namesBase, sourcesBase) ==
    [ i \in 1..Len(list) |->
        [list[i] EXCEPT
            !.fileIndex = Add(@, sourcesBase),
            !.nameIndex = IF @ = Null THEN Null ELSE Add(@, namesBase),
            !.generatedLine = Add(@, linesBase)] ]

\* the mapping records a source map decodes to on its own
OwnMappings(map) == SourceService_decodeMappings(<<>>, map.mappings, NoThreshold).mappings

\* C6: after concat(B) on a newly built service the records contributed by B
\* are B's own decoded records with the source index raised by the number of
\* sources held before the call, a present name index by the number of names
\* held before, and the generated line by the number of generated lines held
\* before; the records held before stay in front of them.
C6_ConcatOffsets ==
    (call.made /\ concats = 1 /\ Len(call.maps) = 1 /\ call.error = "none") =>
        mappings = call.pre.mappings
                   \o ShiftMappings(OwnMappings(call.maps[1]),
                                    Len(Split(envelope.mappings, ";")),
                                    Len(call.pre.names), Len(call.pre.sources))

\* C8: concat(a, b) leaves the service as concat(a) followed by concat(b)
\* leaves it, and ends the same way.
C8_ConcatSplit ==
    (call.made /\ Len(call.maps) = 2) =>
        LET first == SourceService_concat(call.pre, <<call.maps[1]>>)
            second == SourceService_concat(first.service, <<call.maps[2]>>)
            both == IF first.error = "none" THEN second ELSE first
        IN  /\ This = both.service
            /\ call.error = both.error

\* C9: a concat call that raises an error leaves names, sources,
\* sourcesContent and mappings as they were before the call, and a call
\* without arguments raises 'At least one map must be provided for
\* concatenation.'.
C9_ConcatAtomic ==
    call.made =>
        /\ call.error # "none" => This = call.pre
        /\ call.maps = <<>> =>
              call.error = "At least one map must be provided for concatenation."

\* every record a source map decodes to on its own refers to one of its own
\* sources and, when it has a name, to one of its own names
NonDangling(map) ==
    \A i \in 1..Len(OwnMappings(map)) :
        /\ Lt(OwnMappings(map)[i].fileIndex, Len(map.sources))
        /\ OwnMappings(map)[i].nameIndex # Null =>
              Lt(OwnMappings(map)[i].nameIndex, Len(map.names))

\* C10: when the constructor's source map and every map given to concat are
\* non-dangling on their own, every stored record has fileIndex below
\* sources.length and, when it has one, nameIndex below names.length.
C10_NoDanglingIndex ==
    (/\ svcPc = "ready"
     /\ NonDangling(envelope)
     /\ \A k \in 1..Len(given) : NonDangling(given[k])) =>
        \A i \in 1..Len(mappings) :
            /\ Lt(mappings[i].fileIndex, Len(sources))
            /\ mappings[i].nameIndex # Null => Lt(mappings[i].nameIndex, Len(names))

\* C14: the constructor raises the missing-required-key error exactly when
\* the source map lacks one of sources, mappings, names; a source map
\* without file, sourceRoot or sourcesContent is accepted, and those fields
\* are then none or empty.
C14_RequiredKeys ==
    svcPc # "none" =>
        /\ (svcError = "Missing required keys in SourceMap.")
              <=> ~({"sources", "mappings", "names"} \subseteq envelope.keys)
        /\ (svcPc = "ready" /\ "file" \notin envelope.keys) => file = <<>>
        /\ (svcPc = "ready" /\ "sourceRoot" \notin envelope.keys) => sourceRoot = <<>>
        /\ (svcPc = "ready" /\ "sourcesContent" \notin envelope.keys) => sourcesContent = <<>>

\* C15: a source map whose version key is present with a value other than 3
\* is rejected by the constructor: no service is created from it.
C15_VersionThree ==
    (svcPc # "none" /\ "version" \in envelope.keys /\ envelope.version # 3) =>
        svcPc = "failed"

\* the lines of the content of the source the last query resolved to
ResolvedLines == Split(sourcesContent[position.map.fileIndex + 1], "\n")

\* C17: for a position that resolves to original line L in a source of n
\* lines, getSourcePosition returns startLine = max(0, L - linesBefore) and
\* endLine = min(n, L + linesAfter), and code is the content lines of that
\* range; endLine is never above n.
C17_SnippetRange ==
    (position.op = "getSourcePosition" /\ ~position.threw /\ ~position.result.isNull) =>
        LET L == position.result.line
            n == Len(ResolvedLines)
            first == Max(0, L - position.settings.linesBefore)
            last == Min(n, L + position.settings.linesAfter)
        IN  /\ position.result.startLine = first
            /\ position.result.endLine = last
            /\ position.result.endLine <= n
            /\ position.result.code
                  = Join(Slice(ResolvedLines, first, Min(n, last + 1)), "\n")

\* C18: getSourcePosition and getPosition never raise an error; for a
\* generated line without mapping, a bias without candidate and a resolved
\* source without entry in sourcesContent they return none.
C18_QueriesNeverRaise ==
    position.op # "none" =>
        /\ ~position.threw
        /\ position.map = NoMapping => position.result.isNull
        /\ (/\ position.op = "getSourcePosition"
            /\ position.map # NoMapping
            /\ StringAt(sourcesContent, position.map.fileIndex) = <<>>)
              => position.result.isNull

\* the number of sources held before the i-th map of the last concat() call
\* was appended
RECURSIVE SourcesBase(_)
SourcesBase(i) ==
    IF i = 1 THEN Len(call.pre.sources)
    ELSE SourcesBase(i - 1) + Len(call.maps[i - 1].sources)

\* C19: after a concat() call, for every map M of the call and every index k
\* at which M has a sourcesContent entry, sourcesContent[sourcesBase + k] is
\* M.sourcesContent[k] and sources[sourcesBase + k] is M.sources[k],
\* sourcesBase being the number of sources held before M was appended; also
\* when the service held fewer sourcesContent entries than sources.
C19_ContentAlignment ==
    (call.made /\ call.error = "none") =>
        \A i \in 1..Len(call.maps) :
            \A k \in 1..Len(call.maps[i].sourcesContent) :
                /\ StringAt(sourcesContent, SourcesBase(i) + k - 1)
                      = <<call.maps[i].sourcesContent[k]>>
                /\ StringAt(sources, SourcesBase(i) + k - 1) = <<call.maps[i].sources[k]>>

\* C22: getSegment, getOriginalSegment and encode leave the provider's
\* mapping as it was, and getPosition, getSourcePosition, getMapObject and
\* toString leave the service's names, sources, sourcesContent and mappings
\* as they were, whatever the arguments and whether or not a result is found.
C22_ReadOnly ==
    [][/\ op' \in {"getSegment", "getOriginalSegment", "encode"} => mapping' = mapping
       /\ ((serial'.done /\ serial' # serial)
              \/ (position'.op # "none" /\ position' # position))
             => UNCHANGED <<names, sources, sourcesContent, mappings>>]_vars

\* a getSourcePosition call that found a named position and returned its
\* source text, on a service that still holds what the constructor stored
C22_Witness ==
    /\ position.op = "getSourcePosition"
    /\ ~position.result.isNull
    /\ position.result.name # <<>>
    /\ position.result.code # <<>>
    /\ names = envelope.names
    /\ sourcesContent = envelope.sourcesContent
    /\ mappings # <<>>

\* the segment texts of the lines from the i-th on, in order
RECURSIVE TextsFrom(_, _)
TextsFrom(lines, i) ==
    IF i > Len(lines) THEN <<>>
    ELSE (IF lines[i] = <<>> THEN <<>> ELSE Split(lines[i], ",")) \o TextsFrom(lines, i + 1)

\* the segment texts of a mappings string, in order
SegmentTexts(encodedMappings) == TextsFrom(Split(encodedMappings, ";"), 1)

LongEnough(text) == Len(text) >= 4

\* C27: a stored record carries a nameIndex exactly when the VLQ vector it
\* was decoded from has five numbers, and getMapObject emits a five-number
\* segment exactly for the records that carry a nameIndex, so that a
\* five-number segment whose name index is 0 is not re-encoded with four.
C27_NameIndexKept ==
    (svcPc = "ready" /\ concats = 0) =>
        LET decoded == SelectSeq(SegmentTexts(envelope.mappings), LongEnough)
            emitted == SegmentTexts(serial.mappings)
        IN  /\ Len(mappings) = Len(decoded)
            /\ \A k \in 1..Len(mappings) :
                  mappings[k].nameIndex # Null <=> Len(decodeVLQ(decoded[k]).result) = 5
            /\ (serial.done /\ ~serial.threw) =>
                  /\ Len(emitted) = Len(mappings)
                  /\ \A k \in 1..Len(mappings) :
                        Len(decodeVLQ(emitted[k]).result) = 5 <=> mappings[k].nameIndex # Null

\* C29: after any sequence of concat() calls the names, sources and
\* sourcesContent arrays of the object that was given to the constructor
\* are what they were when it was given; concat() changes the service only.
C29_ConcatFrame ==
    call.made =>
        /\ caller.names = envelope.names
        /\ caller.sources = envelope.sources
        /\ caller.sourcesContent = envelope.sourcesContent

\* C30: after the constructor and after successful concat() calls the
\* mapping list is in non-decreasing order of generatedLine, the records a
\* concat() call appended lie on generated lines after every line held
\* before the call, and findMapping returns every stored record at the
\* record's own generated line and column.
C30_LineOrder ==
    (svcPc = "ready" /\ (concats = 0 \/ (concats = 1 /\ call.error = "none"))) =>
        /\ \A i \in 1..(Len(mappings) - 1) :
              mappings[i].generatedLine <= mappings[i + 1].generatedLine
        /\ call.made =>
              \A j \in 1..Len(call.pre.mappings) :
                 \A k \in (Len(call.pre.mappings) + 1)..Len(mappings) :
                    mappings[j].generatedLine < mappings[k].generatedLine
        /\ \A i \in 1..Len(mappings) :
              SourceService_findMapping(mappings, mappings[i].generatedLine,
                                        mappings[i].generatedColumn, "BOUND") = mappings[i]

(***************************************************************************)
(* Specifications.                                                         *)
(***************************************************************************)

Init == VlqInit /\ MpInit /\ SvcInit

\* the codec alone
SpecVLQ == Init /\ [][VlqNext]_vars

\* the decoder alone, on arbitrary strings
SpecText == Init /\ [][TextNext]_vars

\* a provider that is built, extended and re-encoded
Spec == Init /\ [][Next]_vars

\* a provider that is built and extended
SpecDecode == Init /\ [][DecodeNext]_vars

\* a provider that is built and queried
SpecLookup == Init /\ [][LookupNext]_vars

\* a provider that is built from a frame with repeated columns and queried
SpecDuplicates == Init /\ [][DuplicatesNext]_vars

\* a provider that is built and queried by original position
SpecOriginal == Init /\ [][OriginalNext]_vars

\* a service that is built, extended by concat() and serialised
SpecService == Init /\ [][SvcNext]_vars

\* a service that is built and queried
SpecQuery == Init /\ [][QueryNext]_vars

\* a provider or a service that is built and read from
SpecReadOnly == Init /\ [][ReadOnlyNext]_vars

====
